---- MODULE Spec2Model ----
(***************************************************************************)
(* PromiseKeeper (src/index.ts): one cached slot for the result of an      *)
(* expensive producer function, with graceful refresh, purge and an        *)
(* interval-driven background refresh.                                     *)
(*                                                                         *)
(* The producer's results are identified by the number of the invocation   *)
(* that made them (1, 2, ...).  A result is a promise (in flight, then     *)
(* fulfilled or rejected) or a plain value without a `finally` method; the *)
(* producer may also throw synchronously.  Callbacks attached with         *)
(* `.finally` run as microtasks, in FIFO order, after the promise settles. *)
(***************************************************************************)
EXTENDS Integers, Sequences, FiniteSets, TLC

\* ------------------------------------------------------------------ bounds
MaxInvocations == 3
MaxTimers == 2
\* producer calls followed while the background refresh is part of the run
MaxTimerInvocations == 1

\* `undefined`: a deleted / never assigned field
None == 0

Ids == 1..MaxInvocations

\* what one call of the producer does
\* handles returned by keep, and producer calls per registered cell
MaxHandles == 3
MaxKeptInvocations == 1

\* the function references passed to keep
Producers == {"expensive", "other"}

Kinds == {"async", "plain", "throw"}

\* how a promise ends
Outcomes == {"fulfilled", "rejected"}

VARIABLES
    isEmpty,          \* PromiseKeeper.isEmpty
    isPending,        \* PromiseKeeper.isPending
    settledData,      \* PromiseKeeper.settledData (None or an invocation number)
    pendingData,      \* PromiseKeeper.pendingData (None or an invocation number)
    freshTimer,       \* PromiseKeeper.freshTimer (None or a timer number)
    invocationCount,  \* number of calls of the producer so far
    futures,          \* state of the result of each invocation
    reactions,        \* callbacks registered on each promise still in flight
    microtasks,       \* reaction jobs waiting to run, oldest first
    timerCount,       \* number of setInterval calls so far
    activeTimers,     \* interval timers of the runtime that have not been cleared
    timerDelay,       \* delay in ms of the timer held in freshTimer (None: no timer)
    last,             \* history: the last step, the cell before it and what it returned
    purgedInFlight,   \* history: promises in flight that were the pending data at a purge
    doomed,           \* history: <<A, B>>: B was the cached data when purged promise A settled
    cleanIds,         \* history: invocation started by getFresh with nothing outstanding
    flightRead,       \* history: first promise getPending returned that is in flight, no purge since
    storage,          \* the WeakMap: producer -> the cell made for it (None: no entry)
    keepers,          \* the cells made by keep, in order of creation
    handles,          \* every value keep returned so far, with the producer passed
    regLast           \* history: the last call made through a handle and its result

cellVars == <<isEmpty, isPending, settledData, pendingData, invocationCount,
              futures, reactions, microtasks>>
timerVars == <<freshTimer, timerCount, activeTimers, timerDelay>>
histVars == <<last, purgedInFlight, doomed, cleanIds, flightRead>>
regVars == <<storage, keepers, handles, regLast>>
vars == <<cellVars, timerVars, histVars, regVars>>

\* ------------------------------------------------------------- the cell
\* The cell and the promise machinery as one value, so that the methods
\* compose as they do in the source.
\*   ret    : the value the running method returns
\*   thrown : the exception propagating out of the running method
State == [isEmpty |-> isEmpty, isPending |-> isPending,
          settledData |-> settledData, pendingData |-> pendingData,
          invocationCount |-> invocationCount, futures |-> futures,
          reactions |-> reactions, microtasks |-> microtasks,
          ret |-> None, thrown |-> "none"]

\* typeof x?.finally === 'function'
IsThenable(st, p) ==
    /\ p \in DOMAIN st.futures
    /\ st.futures[p] \in {"inflight", "fulfilled", "rejected"}

\* p.finally(cb): a reaction of a promise in flight waits for it to settle;
\* a reaction of a settled promise is queued as a microtask at once.
Finally(st, p, cb) ==
    IF st.futures[p] = "inflight"
    THEN [st EXCEPT !.reactions[p] = Append(@, cb)]
    ELSE [st EXCEPT !.microtasks = Append(@, [cb |-> cb, id |-> p])]

\* this.fn(): the producer is called once more
Fn(st, kind) ==
    LET n == st.invocationCount + 1
        counted == [st EXCEPT !.invocationCount = n]
    IN IF n \notin DOMAIN st.futures THEN counted
       ELSE CASE kind = "async" -> [counted EXCEPT !.futures[n] = "inflight", !.ret = n]
              [] kind = "plain" -> [counted EXCEPT !.futures[n] = "plain", !.ret = n]
              [] OTHER -> [counted EXCEPT !.futures[n] = "threw", !.thrown = "producer"]

\* faulty variant: a rejected promise is not cached
settle_onlyFulfilled(st) ==
    IF st.isPending /\ ~(st.pendingData \in DOMAIN st.futures
                          /\ st.futures[st.pendingData] = "rejected")
    THEN [st EXCEPT !.settledData = st.pendingData,
                    !.isEmpty = FALSE,
                    !.isPending = FALSE]
    ELSE st

settle(st) ==
    IF st.isPending
    THEN [st EXCEPT !.settledData = st.pendingData,
                    !.isEmpty = FALSE,
                    !.isPending = FALSE]
    ELSE st

\* faulty variant: isPending is not set
invoke_unflagged(st, kind) ==
    LET called == Fn(st, kind)
        stored == [called EXCEPT !.pendingData = called.ret, !.ret = None]
    IN IF called.thrown # "none" THEN called
       ELSE IF IsThenable(stored, stored.pendingData)
            THEN Finally(stored, stored.pendingData, "settle")
            ELSE settle(stored)

\* faulty variant: settle is called at once, for a promise too
invoke_settlesAtOnce(st, kind) ==
    LET marked == [st EXCEPT !.isPending = TRUE]
        called == Fn(marked, kind)
        stored == [called EXCEPT !.pendingData = called.ret, !.ret = None]
    IN IF called.thrown # "none" THEN called
       ELSE settle(stored)

invoke(st, kind) ==
    LET marked == [st EXCEPT !.isPending = TRUE]
        called == Fn(marked, kind)
        stored == [called EXCEPT !.pendingData = called.ret, !.ret = None]
    IN IF called.thrown # "none" THEN called
       ELSE IF IsThenable(stored, stored.pendingData)
            THEN Finally(stored, stored.pendingData, "settle")
            ELSE settle(stored)

\* faulty variant: isPending survives the clear
clear_keepsPending(st) ==
    [st EXCEPT !.settledData = None,
               !.pendingData = None,
               !.isEmpty = TRUE]

clear(st) ==
    [st EXCEPT !.settledData = None,
               !.pendingData = None,
               !.isEmpty = TRUE,
               !.isPending = FALSE]

\* faulty variant: no check of isPending
refresh_always(st, kind) ==
    invoke(st, kind)

refresh(st, kind) ==
    IF ~st.isPending THEN invoke(st, kind) ELSE st

\* faulty variant: no second clear when the pending promise settles
purge_noDeferredClear(st) ==
    clear(st)

purge(st) ==
    clear(IF IsThenable(st, st.pendingData)
          THEN Finally(st, st.pendingData, "clear")
          ELSE st)

getPending(st, kind) ==
    LET s1 == IF st.isEmpty THEN refresh(st, kind) ELSE st
    IN IF s1.thrown # "none" THEN s1 ELSE [s1 EXCEPT !.ret = s1.pendingData]

\* faulty variant: pending data preferred
getSettled_prefersPending(st, kind) ==
    getPending(st, kind)

getSettled(st, kind) ==
    IF ~st.isEmpty THEN [st EXCEPT !.ret = st.settledData]
    ELSE LET s1 == refresh(st, kind)
         IN IF s1.thrown # "none" THEN s1 ELSE [s1 EXCEPT !.ret = s1.pendingData]

\* faulty variant: an empty cell is refreshed
getSettledOrThrowSync_refreshes(st) ==
    getSettled(st, "async")

getSettledOrThrowSync(st) ==
    IF st.isEmpty THEN [st EXCEPT !.thrown = "nodata"]
    ELSE [st EXCEPT !.ret = st.settledData]

\* faulty variant: no purge
getFresh_noPurge(st, kind) ==
    getPending(st, kind)

getFresh(st, kind) ==
    getPending(purge(st), kind)

\* --------------------------------------------------------------- timers
Timers == [freshTimer |-> freshTimer, timerCount |-> timerCount,
           activeTimers |-> activeTimers, timerDelay |-> timerDelay]

\* faulty variant: the handle is dropped, the timer is not cleared
stopFresh_leavesTimer(tm) ==
    [tm EXCEPT !.freshTimer = None]

stopFresh(tm) ==
    IF tm.freshTimer # None
    THEN [tm EXCEPT !.activeTimers = @ \ {tm.freshTimer}, !.freshTimer = None,
                    !.timerDelay = None]
    ELSE tm

\* intervals a caller may pass: 10 ms, -1 and NaN (finite: Number.isFinite)
Intervals == {[given |-> TRUE, finite |-> TRUE, ms |-> 10],
              [given |-> TRUE, finite |-> TRUE, ms |-> -1],
              [given |-> TRUE, finite |-> FALSE, ms |-> 0]}

\* keepFresh() called without an argument
Omitted == [given |-> FALSE, finite |-> FALSE, ms |-> 0]

Arguments == Intervals \cup {Omitted}

\* a finite, positive interval
ValidInterval(interval) == interval.finite /\ interval.ms > 0

\* the default value of the parameter: interval = 1000 * 60 * 60 * 30
DefaultInterval == 1000 * 60 * 60 * 30

\* the longest delay a timer of the runtime takes: 2^31 - 1 ms
TIMEOUT_MAX == (2^30 - 1) + 2^30

\* setInterval(callback, ms): a delay that is not a number between 1 and
\* TIMEOUT_MAX is replaced by 1
Delay(interval) ==
    IF interval.finite /\ interval.ms >= 1 /\ interval.ms <= TIMEOUT_MAX
    THEN interval.ms
    ELSE 1

\* faulty variant: the timer in place is not stopped
keepFresh_noStop(tm, argument) ==
    LET t == tm.timerCount + 1
    IN [tm EXCEPT !.timerCount = t, !.activeTimers = @ \cup {t}, !.freshTimer = t]

keepFresh(tm, argument) ==
    LET interval == IF argument.given THEN argument
                    ELSE [given |-> TRUE, finite |-> TRUE, ms |-> DefaultInterval]
        stopped == stopFresh(tm)
        t == stopped.timerCount + 1
    IN [stopped EXCEPT !.timerCount = t, !.activeTimers = @ \cup {t}, !.freshTimer = t,
                       !.timerDelay = Delay(interval)]

\* ------------------------------------------------------------- history
Cell(st) == [isEmpty |-> st.isEmpty, isPending |-> st.isPending,
             settledData |-> st.settledData, pendingData |-> st.pendingData,
             invocationCount |-> st.invocationCount]

InFlight(p) == p \in Ids /\ futures[p] = "inflight"

\* nothing of an earlier invocation can still reach the cell
Idle == microtasks = <<>> /\ \A p \in Ids : ~InFlight(p)

\* last.erased      : the cached data a purged promise's last reaction found at its settling
\* last.afterErased : last.erased of the step before
Record(op, id, st, erased) ==
    last' = [op |-> op, id |-> id, ret |-> st.ret, thrown |-> st.thrown,
             pre |-> Cell(State), erased |-> erased, afterErased |-> last.erased]

\* the cell after a method has run
Commit(st) ==
    /\ st.invocationCount <= MaxInvocations
    /\ isEmpty' = st.isEmpty
    /\ isPending' = st.isPending
    /\ settledData' = st.settledData
    /\ pendingData' = st.pendingData
    /\ invocationCount' = st.invocationCount
    /\ futures' = st.futures
    /\ reactions' = st.reactions
    /\ microtasks' = st.microtasks

NotePurge ==
    purgedInFlight' = IF InFlight(pendingData) THEN purgedInFlight \cup {pendingData}
                      ELSE purgedInFlight

\* ------------------------------------------------------------- actions
Init ==
    /\ isEmpty = TRUE
    /\ isPending = FALSE
    /\ settledData = None
    /\ pendingData = None
    /\ freshTimer = None
    /\ invocationCount = 0
    /\ futures = [p \in Ids |-> "unborn"]
    /\ reactions = [p \in Ids |-> <<>>]
    /\ microtasks = <<>>
    /\ timerCount = 0
    /\ activeTimers = {}
    /\ timerDelay = None
    /\ last = [op |-> "init", id |-> None, ret |-> None, thrown |-> "none",
               pre |-> Cell(State), erased |-> None, afterErased |-> None]
    /\ purgedInFlight = {}
    /\ doomed = {}
    /\ cleanIds = {}
    /\ flightRead = None
    /\ storage = [fn \in Producers |-> None]
    /\ keepers = <<>>
    /\ handles = <<>>
    /\ regLast = [op |-> "init", handle |-> None, ret |-> None, thrown |-> "none"]

Refresh ==
    \E kind \in Kinds :
        LET st == refresh(State, kind) IN
        /\ Commit(st)
        /\ Record("refresh", None, st, None)
        /\ UNCHANGED <<regVars, timerVars, purgedInFlight, doomed, cleanIds, flightRead>>

Purge ==
    LET st == purge(State) IN
    /\ Commit(st)
    /\ Record("purge", None, st, None)
    /\ NotePurge
    /\ flightRead' = None
    /\ cleanIds' = {}
    /\ UNCHANGED <<regVars, timerVars, doomed>>

GetPending ==
    \E kind \in Kinds :
        LET st == getPending(State, kind) IN
        /\ Commit(st)
        /\ Record("getPending", None, st, None)
        /\ flightRead' = IF flightRead = None /\ st.ret # None
                            /\ st.futures[st.ret] = "inflight"
                         THEN st.ret ELSE flightRead
        /\ UNCHANGED <<regVars, timerVars, purgedInFlight, doomed, cleanIds>>

GetSettled ==
    \E kind \in Kinds :
        LET st == getSettled(State, kind) IN
        /\ Commit(st)
        /\ Record("getSettled", None, st, None)
        /\ UNCHANGED <<regVars, timerVars, purgedInFlight, doomed, cleanIds, flightRead>>

GetSettledOrThrowSync ==
    LET st == getSettledOrThrowSync(State) IN
    /\ Commit(st)
    /\ Record("getSettledOrThrowSync", None, st, None)
    /\ UNCHANGED <<regVars, timerVars, purgedInFlight, doomed, cleanIds, flightRead>>

GetFresh ==
    \E kind \in Kinds :
        LET st == getFresh(State, kind) IN
        /\ Commit(st)
        /\ Record("getFresh", None, st, None)
        /\ NotePurge
        /\ flightRead' = None
        /\ cleanIds' = IF Idle /\ st.ret # None /\ st.futures[st.ret] = "inflight"
                       THEN {st.ret} ELSE {}
        /\ UNCHANGED <<regVars, timerVars, doomed>>

\* the promise of invocation p settles: its reactions are queued in the
\* order they were registered
Complete ==
    \E p \in Ids, outcome \in Outcomes :
        /\ futures[p] = "inflight"
        /\ futures' = [futures EXCEPT ![p] = outcome]
        /\ microtasks' = microtasks \o [i \in 1..Len(reactions[p]) |->
                                            [cb |-> reactions[p][i], id |-> p]]
        /\ reactions' = [reactions EXCEPT ![p] = <<>>]
        /\ Record("complete", p, State, None)
        /\ doomed' = IF /\ p \in purgedInFlight
                        /\ ~isEmpty
                        /\ settledData \in Ids \ {p}
                        /\ futures[settledData] # "inflight"
                     THEN doomed \cup {<<p, settledData>>} ELSE doomed
        /\ purgedInFlight' = purgedInFlight \ {p}
        /\ flightRead' = IF flightRead = p THEN None ELSE flightRead
        /\ UNCHANGED <<regVars, isEmpty, isPending, settledData, pendingData, invocationCount,
                       timerVars, cleanIds>>

\* the oldest reaction job runs
RunMicrotask ==
    /\ microtasks # <<>>
    /\ LET job == Head(microtasks)
           rest == Tail(microtasks)
           popped == [State EXCEPT !.microtasks = rest]
           st == IF job.cb = "settle" THEN settle(popped) ELSE clear(popped)
           final == \A i \in 1..Len(rest) : rest[i].id # job.id
           mine == {d \in doomed : d[1] = job.id}
       IN /\ Commit(st)
          /\ Record(job.cb, job.id, st,
                    IF final /\ mine # {} THEN (CHOOSE d \in mine : TRUE)[2] ELSE None)
          /\ doomed' = IF final THEN doomed \ mine ELSE doomed
    /\ UNCHANGED <<regVars, timerVars, purgedInFlight, cleanIds, flightRead>>

Next ==
    \/ Refresh
    \/ Purge
    \/ GetPending
    \/ GetSettled
    \/ GetSettledOrThrowSync
    \/ GetFresh
    \/ Complete
    \/ RunMicrotask

Spec == Init /\ [][Next]_vars

\* ------------------------------------------------- background refresh
KeepFreshWith(interval) ==
    LET tm == keepFresh(Timers, interval) IN
    /\ tm.timerCount <= MaxTimers
    /\ freshTimer' = tm.freshTimer
    /\ timerCount' = tm.timerCount
    /\ activeTimers' = tm.activeTimers
    /\ timerDelay' = tm.timerDelay
    /\ Record("keepFresh", freshTimer, State, None)
    /\ UNCHANGED <<regVars, cellVars, purgedInFlight, doomed, cleanIds, flightRead>>

KeepFresh ==
    \E argument \in Arguments : KeepFreshWith(argument)

StopFresh ==
    LET tm == stopFresh(Timers) IN
    /\ freshTimer' = tm.freshTimer
    /\ timerCount' = tm.timerCount
    /\ activeTimers' = tm.activeTimers
    /\ timerDelay' = tm.timerDelay
    /\ Record("stopFresh", freshTimer, State, None)
    /\ UNCHANGED <<regVars, cellVars, purgedInFlight, doomed, cleanIds, flightRead>>

\* an interval timer fires: process.nextTick(refresh) runs before any other code
TimerTick ==
    \E t \in activeTimers, kind \in Kinds :
        LET st == refresh(State, kind) IN
        /\ Commit(st)
        /\ Record("tick", t, st, None)
        /\ UNCHANGED <<regVars, timerVars, purgedInFlight, doomed, cleanIds, flightRead>>

TimerBound == invocationCount' <= MaxTimerInvocations

TimerNext ==
    \/ Refresh /\ TimerBound
    \/ Purge
    \/ GetPending /\ TimerBound
    \/ GetSettled /\ TimerBound
    \/ GetSettledOrThrowSync
    \/ GetFresh /\ TimerBound
    \/ Complete
    \/ RunMicrotask
    \/ KeepFresh
    \/ StopFresh
    \/ TimerTick /\ TimerBound

\* the cell with its background refresh
TimerSpec == Init /\ [][TimerNext]_vars

\* a caller that never calls purge or getFresh
NoPurgeNext ==
    \/ Refresh
    \/ GetPending
    \/ GetSettled
    \/ GetSettledOrThrowSync
    \/ Complete
    \/ RunMicrotask
    \/ KeepFresh
    \/ StopFresh
    \/ TimerTick

NoPurgeSpec == Init /\ [][NoPurgeNext]_vars

\* the runtime drains the microtask queue: a queued reaction job runs
NoPurgeFairSpec == NoPurgeSpec /\ WF_vars(RunMicrotask)

\* ------------------------------------------------------------- the registry
\* new PromiseKeeper(fn)
PromiseKeeper(fn) ==
    [fn |-> fn, isEmpty |-> TRUE, isPending |-> FALSE,
     settledData |-> None, pendingData |-> None,
     invocationCount |-> 0, futures |-> [p \in Ids |-> "unborn"],
     reactions |-> [p \in Ids |-> <<>>], microtasks |-> <<>>,
     ret |-> None, thrown |-> "none"]

Registry == [storage |-> storage, keepers |-> keepers, ret |-> None]

\* faulty variant: storage is not consulted
keep_alwaysNew(reg, fn) ==
    LET kept == Len(reg.keepers) + 1
    IN [storage |-> [reg.storage EXCEPT ![fn] = kept],
        keepers |-> Append(reg.keepers, PromiseKeeper(fn)),
        ret |-> kept]

\* the default export
keep(reg, fn) ==
    LET existing == reg.storage[fn]
        kept == Len(reg.keepers) + 1
    IN IF existing = None
       THEN [storage |-> [reg.storage EXCEPT ![fn] = kept],
             keepers |-> Append(reg.keepers, PromiseKeeper(fn)),
             ret |-> kept]
       ELSE [reg EXCEPT !.ret = existing]

Keep ==
    \E fn \in Producers :
        LET reg == keep(Registry, fn) IN
        /\ Len(handles) < MaxHandles
        /\ storage' = reg.storage
        /\ keepers' = reg.keepers
        /\ handles' = Append(handles, [fn |-> fn, kept |-> reg.ret])
        /\ regLast' = [op |-> "keep", handle |-> Len(handles) + 1,
                       ret |-> reg.ret, thrown |-> "none"]
        /\ UNCHANGED <<cellVars, timerVars, histVars>>

\* a bound method of the cell behind handle h has run and left it as st
Via(op, h, st) ==
    /\ st.invocationCount <= MaxKeptInvocations
    /\ keepers' = [keepers EXCEPT ![handles[h].kept] =
                       [st EXCEPT !.ret = None, !.thrown = "none"]]
    /\ regLast' = [op |-> op, handle |-> h, ret |-> st.ret, thrown |-> st.thrown]
    /\ UNCHANGED <<storage, handles, cellVars, timerVars, histVars>>

KeptRefresh ==
    \E h \in 1..Len(handles), kind \in Kinds :
        Via("refresh", h, refresh(keepers[handles[h].kept], kind))

KeptPurge ==
    \E h \in 1..Len(handles) :
        Via("purge", h, purge(keepers[handles[h].kept]))

KeptGetSettledOrThrowSync ==
    \E h \in 1..Len(handles) :
        Via("getSettledOrThrowSync", h, getSettledOrThrowSync(keepers[handles[h].kept]))

RegistryNext ==
    \/ Keep
    \/ KeptRefresh
    \/ KeptPurge
    \/ KeptGetSettledOrThrowSync

\* callers that wrap producers and use the cells through the handles
RegistrySpec == Init /\ [][RegistryNext]_vars


\* ---------------------------------------------------------- properties
Pre == last.pre
Unchanged == Cell(State) = Pre
EmptyCell == isEmpty /\ ~isPending /\ settledData = None /\ pendingData = None
Reads == {"getPending", "getSettled", "getSettledOrThrowSync", "getFresh"}

\* C1: a settle changes settledData / isEmpty only if the promise it was
\* registered on is the pending data the cell is watching; a promise that was
\* in flight at a purge never writes settledData when it completes.
C1_RaceGuard ==
    (last.op = "settle" /\ (settledData # Pre.settledData \/ isEmpty # Pre.isEmpty))
        => (Pre.isPending /\ Pre.pendingData = last.id)

\* C2: when a promise A that was in flight at a purge settles while the data
\* B of a later invocation is cached, A's reactions leave the cell empty,
\* and a getPending that comes next starts a new invocation and does not
\* return B.
C2_DeferredClear ==
    /\ last.erased # None => EmptyCell
    /\ (last.op = "getPending" /\ last.afterErased # None)
        => /\ invocationCount = Pre.invocationCount + 1
           /\ last.ret # last.afterErased
           /\ last.thrown = "none" => last.ret = invocationCount

C2_Witness ==
    /\ last.op = "getPending"
    /\ last.afterErased = 2
    /\ last.ret = 3
    /\ futures[1] \in Outcomes

\* C3: after a purge with no invocation in flight nothing clears the cell
\* later: the invocation getFresh starts in such a state is accepted when it
\* completes.
C3_NoClearAfterIdlePurge ==
    (last.op = "settle" /\ last.id \in cleanIds)
        => (~isEmpty /\ settledData = last.id)

\* C4 as stated: refresh while isPending changes nothing, and the getPending
\* calls made while one promise is in flight, with no purge in between,
\* return that promise, the producer not being called again.
C4_SingleFlightWhileInFlight ==
    /\ (last.op = "refresh" /\ Pre.isPending) => Unchanged
    /\ flightRead # None
        => /\ invocationCount = flightRead
           /\ (last.op = "getPending" /\ last.thrown = "none") => last.ret = flightRead

\* C4 amended: refresh while isPending changes nothing, and the getPending
\* calls made while isPending stays true return the same pending data, the
\* producer not being called again.
C4_SingleFlight ==
    /\ (last.op = "refresh" /\ Pre.isPending) => Unchanged
    /\ (last.op = "getPending" /\ Pre.isPending)
        => (Unchanged /\ last.thrown = "none" /\ last.ret = Pre.pendingData)
    /\ (last.op \notin {"purge", "getFresh"} /\ Pre.isPending /\ isPending)
        => (pendingData = Pre.pendingData /\ invocationCount = Pre.invocationCount)

C4_Witness ==
    /\ last.op = "getPending"
    /\ Pre.isPending
    /\ InFlight(last.ret)
    /\ flightRead = last.ret
    /\ Pre.invocationCount = invocationCount

\* C5: purge leaves the cell empty, not pending, with no pending and no
\* settled data, from any state, and does not call the producer.
C5_PurgeClears ==
    last.op = "purge" => (EmptyCell /\ invocationCount = Pre.invocationCount)

C5_Witness ==
    /\ last.op = "purge"
    /\ ~Pre.isEmpty
    /\ Pre.isPending
    /\ InFlight(Pre.pendingData)

\* C6: getSettledOrThrowSync throws the no-data error on an empty cell and
\* returns settledData otherwise; it never calls the producer and changes no
\* field.
C6_StrictRead ==
    last.op = "getSettledOrThrowSync"
        => /\ Unchanged
           /\ Pre.isEmpty => (last.thrown = "nodata" /\ last.ret = None)
           /\ ~Pre.isEmpty => (last.thrown = "none" /\ last.ret = Pre.settledData)

C6_Witness ==
    /\ last.op = "getSettledOrThrowSync"
    /\ last.thrown = "nodata"
    /\ Pre.isPending
    /\ InFlight(Pre.pendingData)

\* the newest invocation is in flight and watched while older data is cached
StalePending == ~isEmpty /\ isPending /\ InFlight(invocationCount)

\* C7: on a non-empty cell getSettled returns settledData and calls nothing;
\* while a newer refresh is in flight that is the previously settled data and
\* not the pending one, which getPending returns; on an empty cell getSettled
\* refreshes and returns pendingData.
C7_SettledDivergence ==
    /\ (last.op = "getSettled" /\ ~Pre.isEmpty)
        => (Unchanged /\ last.thrown = "none" /\ last.ret = Pre.settledData)
    /\ (last.op = "getSettled" /\ Pre.isEmpty /\ last.thrown = "none")
        => /\ last.ret = pendingData
           /\ invocationCount = Pre.invocationCount + (IF Pre.isPending THEN 0 ELSE 1)
    /\ StalePending
        => /\ settledData # pendingData
           /\ pendingData = invocationCount
           /\ last.op = "getSettled" => last.ret = settledData
           /\ last.op = "getPending" => last.ret = pendingData

C7_Witness ==
    /\ StalePending
    /\ last.op = "getSettled"
    /\ Pre.isPending
    /\ last.ret # pendingData

\* C8: getPending on an empty cell with nothing pending calls the producer
\* once and returns the new data, otherwise it calls nothing and returns the
\* pending data; what it returns is never the absent value.
C8_GetPendingPresent ==
    (last.op = "getPending" /\ last.thrown = "none")
        => /\ last.ret = pendingData
           /\ last.ret # None
           /\ invocationCount =
                Pre.invocationCount + (IF Pre.isEmpty /\ ~Pre.isPending THEN 1 ELSE 0)
           /\ (Pre.isEmpty /\ ~Pre.isPending) => last.ret = invocationCount

\* C9: getFresh calls the producer exactly once and returns the data of that
\* call, which no caller was handed before; the promises made before keep
\* their state and their reactions.
C9_FreshIsNew ==
    [][GetFresh =>
        /\ invocationCount' = invocationCount + 1
        /\ last'.thrown = "none" => (last'.ret = invocationCount' /\ last'.ret = pendingData')
        /\ \A p \in 1..invocationCount :
              /\ futures'[p] = futures[p]
              /\ SubSeq(reactions'[p], 1, Len(reactions[p])) = reactions[p]]_vars

C9_Witness ==
    /\ last.op = "getFresh"
    /\ last.ret = 2
    /\ InFlight(1)
    /\ InFlight(2)

\* C10: the settle of the watched promise makes the same transition whether
\* the promise was fulfilled or rejected, and calls the producer no more.
C10_OutcomeAgnostic ==
    /\ (last.op = "settle" /\ Pre.isPending /\ Pre.pendingData = last.id)
        => /\ settledData = last.id
           /\ pendingData = last.id
           /\ ~isEmpty
           /\ ~isPending
           /\ invocationCount = Pre.invocationCount
    /\ last.op \in {"complete", "settle", "clear"} => invocationCount = Pre.invocationCount

C10_Witness ==
    /\ last.op = "settle"
    /\ Pre.isPending
    /\ Pre.pendingData = last.id
    /\ futures[last.id] = "rejected"
    /\ settledData = last.id

\* C11: keepFresh with a non-finite or non-positive interval does nothing:
\* it installs no timer and leaves the timer in place running.
C11_InvalidIntervalIgnored ==
    [][\A interval \in Intervals :
          (~ValidInterval(interval) /\ KeepFreshWith(interval))
              => UNCHANGED timerVars]_vars

\* C12: keepFresh stops the timer in place before it installs the new one,
\* so at most one timer is active, freshTimer is present exactly when one is,
\* and a tick refreshes: it calls the producer only if isPending is false.
C12_OneTimer ==
    /\ Cardinality(activeTimers) <= 1
    /\ activeTimers = IF freshTimer = None THEN {} ELSE {freshTimer}
    /\ last.op = "keepFresh"
        => (Unchanged /\ freshTimer = timerCount /\ last.id # freshTimer)
    /\ last.op = "tick"
        => /\ Pre.isPending => Unchanged
           /\ ~Pre.isPending => invocationCount = Pre.invocationCount + 1

C12_Witness ==
    /\ last.op = "keepFresh"
    /\ last.id = 1
    /\ activeTimers = {2}

\* C13: stopFresh clears the timer if there is one and does nothing
\* otherwise; it changes no cache field, and afterwards no tick happens
\* until keepFresh installs a timer again.
C13_StopFresh ==
    /\ last.op = "stopFresh"
        => (Unchanged /\ last.thrown = "none" /\ freshTimer = None /\ activeTimers = {})
    /\ freshTimer = None => activeTimers = {}
    /\ last.op = "tick" => last.id = freshTimer

C13_Witness ==
    /\ last.op = "stopFresh"
    /\ last.id = 1
    /\ freshTimer = None
    /\ isPending

\* C15: settledData is present exactly when the cell is not empty.
C15_SettledIffNonEmpty ==
    (settledData # None) <=> ~isEmpty

\* C16: the settledData of a non-empty cell is never a promise that is
\* still in flight.
C16_SettledIsCompleted ==
    ~isEmpty => ~InFlight(settledData)

\* the settle callback registered on promise p is waiting to run
SettleQueued(p) ==
    \E i \in 1..Len(microtasks) : microtasks[i] = [cb |-> "settle", id |-> p]

\* the cell's invoke registered settle on p and that callback has not run yet
Watched(p) == InFlight(p) \/ SettleQueued(p)

\* C17: isPending is true only when pendingData is present and is the promise
\* of an invocation whose completion the cell has not handled yet, and it is
\* true whenever the newest invocation is such a promise that no purge dropped.
C17_PendingIffInFlight ==
    /\ isPending => (pendingData # None /\ Watched(pendingData))
    /\ (pendingData # None /\ pendingData = invocationCount /\ Watched(pendingData))
           => isPending

\* C18: the four documented states. empty: no data; pending: only
\* pendingData; fresh: settledData and pendingData are the same; stale: both
\* are present and differ.
C18_FourStates ==
    /\ (isEmpty /\ ~isPending) => (pendingData = None /\ settledData = None)
    /\ (isEmpty /\ isPending) => (pendingData # None /\ settledData = None)
    /\ (~isEmpty /\ ~isPending) => (settledData # None /\ settledData = pendingData)
    /\ (~isEmpty /\ isPending)
           => (settledData # None /\ pendingData # None /\ settledData # pendingData)

\* C19: when purge and getFresh are never called, at most one producer
\* invocation is in flight at any time.
C19_OneInFlight ==
    Cardinality({p \in Ids : InFlight(p)}) <= 1

C19_Witness ==
    /\ last.op = "tick"
    /\ futures[1] \in Outcomes
    /\ InFlight(2)
    /\ ~isEmpty

\* a step that called the producer and got a value that is no promise
PlainInvoke ==
    /\ invocationCount = Pre.invocationCount + 1
    /\ futures[invocationCount] = "plain"

\* what the cell holds once invocation p has been accepted
Accepted(p) == ~isEmpty /\ ~isPending /\ settledData = p

\* C20: when purge and getFresh are never called, an invocation that
\* completes leads to a non-empty cell that is not pending and whose
\* settledData is that invocation's promise; until then settledData stays
\* what it was and getSettled on a non-empty cell returns it, afterwards
\* getSettled returns the new one.
C20_StaleWhileRevalidate ==
    /\ [](
          /\ last.op = "settle" => (Pre.isPending /\ Pre.pendingData = last.id /\ Accepted(last.id))
          /\ PlainInvoke => Accepted(invocationCount)
          /\ (last.op # "settle" /\ ~PlainInvoke) => settledData = Pre.settledData
          /\ (last.op = "getSettled" /\ ~Pre.isEmpty)
                 => (Unchanged /\ last.ret = Pre.settledData)
          /\ (~isEmpty /\ InFlight(pendingData))
                 => (isPending /\ settledData # pendingData /\ ~InFlight(settledData)))
    /\ \A p \in Ids : SettleQueued(p) ~> Accepted(p)

C20_Witness ==
    /\ last.op = "getSettled"
    /\ last.ret = 2
    /\ futures[1] \in Outcomes
    /\ futures[2] \in Outcomes
    /\ Accepted(2)

\* C14: keep returns the same cell for the same producer and different
\* cells for different producers; a call made through a handle changes only
\* the cell of the handle's producer, and a read made through a handle
\* returns what that shared cell holds, whichever handle put it there.
C14_RegistryIdempotence ==
    /\ [](\A h1, h2 \in 1..Len(handles) :
            /\ (handles[h1].fn = handles[h2].fn) <=> (handles[h1].kept = handles[h2].kept)
            /\ keepers[handles[h1].kept].fn = handles[h1].fn
            /\ storage[handles[h1].fn] = handles[h1].kept)
    /\ [][/\ \A c \in 1..Len(keepers) :
               keepers'[c] # keepers[c]
                   => /\ regLast'.op # "keep"
                      /\ handles[regLast'.handle].kept = c
                      /\ handles[regLast'.handle].fn = keepers[c].fn
          /\ regLast'.op = "getSettledOrThrowSync"
               => LET kept == keepers[handles[regLast'.handle].kept]
                  IN IF kept.isEmpty THEN regLast'.thrown = "nodata"
                     ELSE regLast'.ret = kept.settledData]_vars

C14_Witness ==
    /\ Len(handles) = 3
    /\ handles[1].fn = handles[3].fn
    /\ handles[1].fn # handles[2].fn
    /\ regLast.op = "getSettledOrThrowSync"
    /\ regLast.handle = 3
    /\ regLast.ret # None
    /\ keepers[handles[2].kept].isEmpty

\* C21: when the producer throws during an invocation started by refresh,
\* getPending or getSettled, the call leaves the cell as it found it; in
\* particular isPending is not left true.
C21_ThrowLeavesCell ==
    (last.op \in {"refresh", "getPending", "getSettled"} /\ last.thrown = "producer")
        => /\ isPending = Pre.isPending
           /\ isEmpty = Pre.isEmpty
           /\ settledData = Pre.settledData
           /\ pendingData = Pre.pendingData

\* C22: keepFresh called without an interval installs a timer whose period
\* is 30 minutes, 1 800 000 ms.
C22_DefaultThirtyMinutes ==
    [][KeepFreshWith(Omitted) => timerDelay' = 30 * 60 * 1000]_vars

====
